---- MODULE Spec2Model ----
(***************************************************************************)
(* State-machine model of UNF/training/learner.py (class Trainer): the     *)
(* epoch/batch loop of learn(), train_epoch, val_epoch, batch_loss,        *)
(* save_checkpoint and restore_checkpoint, together with the MetricTracker *)
(* and Checkpointer collaborators of training/learner_util.                *)
(***************************************************************************)
EXTENDS Integers, Sequences, FiniteSets, TLC

(***************************************************************************)
(* Bounds of the model.                                                    *)
(***************************************************************************)
MaxEpochs == 3          \* largest num_epochs a Trainer is configured with
MaxPatience == 2        \* largest patience a Trainer is configured with
MaxMetric == 1          \* validation metric values are 0..MaxMetric
NumTrainBatches == 2    \* batches train_iter yields per epoch
NumEvalBatches == 1     \* batches val_iter / test_iter yield per pass
MaxRestarts == 1        \* interruptions followed by a fresh Trainer

(***************************************************************************)
(* Values.  None is Python's None where an integer is expected; NaN is the *)
(* float nan of a loss.  Losses and metrics are otherwise naturals.        *)
(***************************************************************************)
None == 0 - 1
NaN == 0 - 2
Unbound == 0 - 3        \* a local name of learn() that was never assigned

isnan(x) == x = NaN
\* float addition and multiplication: nan is absorbing
fadd(x, y) == IF isnan(x) \/ isnan(y) THEN NaN ELSE x + y
fmul(x, y) == IF isnan(x) \/ isnan(y) THEN NaN ELSE x * y

RECURSIVE SeqMax(_)
SeqMax(s) == IF Len(s) = 1 THEN s[1]
             ELSE LET m == SeqMax(Tail(s)) IN IF s[1] >= m THEN s[1] ELSE m
RECURSIVE SeqMin(_)
SeqMin(s) == IF Len(s) = 1 THEN s[1]
             ELSE LET m == SeqMin(Tail(s)) IN IF s[1] <= m THEN s[1] ELSE m
Range(s) == {s[i] : i \in 1..Len(s)}

(***************************************************************************)
(* MetricTracker (training/learner_util): history of the validation        *)
(* metric, best value, best epoch, epochs since best.                      *)
(***************************************************************************)
\* validation_metric is a sign character followed by the metric's name
is_higher_better(validation_metric) == validation_metric[1] = "+"

MetricTracker(patience, validation_metric) ==
    [patience |-> patience,
     is_higher_better |-> is_higher_better(validation_metric),
     history |-> <<>>, best_value |-> None, best_epoch |-> None,
     epochs_since_best |-> 0, best_epoch_metrics |-> None]

clear(mt) ==
    [mt EXCEPT !.history = <<>>, !.best_value = None, !.best_epoch = None,
               !.epochs_since_best = 0]

\* a tracker that lets a tie take the best epoch
add_metric_ties_latest(mt, value) ==
    LET new_best == \/ mt.history = <<>>
                    \/ (mt.is_higher_better /\ value >= mt.best_value)
                    \/ (~mt.is_higher_better /\ value <= mt.best_value)
    IN IF new_best
       THEN [mt EXCEPT !.history = Append(@, value), !.best_value = value,
                       !.best_epoch = Len(mt.history), !.epochs_since_best = 0]
       ELSE [mt EXCEPT !.history = Append(@, value),
                       !.epochs_since_best = @ + 1]

add_metric(mt, value) ==
    LET new_best == \/ mt.history = <<>>
                    \/ (mt.is_higher_better /\ value > mt.best_value)
                    \/ (~mt.is_higher_better /\ value < mt.best_value)
    IN IF new_best
       THEN [mt EXCEPT !.history = Append(@, value), !.best_value = value,
                       !.best_epoch = Len(mt.history), !.epochs_since_best = 0]
       ELSE [mt EXCEPT !.history = Append(@, value),
                       !.epochs_since_best = @ + 1]

is_best_so_far(mt) ==
    /\ mt.history # <<>>
    /\ mt.best_epoch = Len(mt.history) - 1

should_stop_early(mt) ==
    /\ mt.patience # None
    /\ mt.epochs_since_best >= mt.patience

tracker_state_dict(mt) ==
    [history |-> mt.history, best_value |-> mt.best_value,
     best_epoch |-> mt.best_epoch, epochs_since_best |-> mt.epochs_since_best,
     best_epoch_metrics |-> mt.best_epoch_metrics]

tracker_load_state_dict(mt, sd) ==
    [mt EXCEPT !.history = sd.history, !.best_value = sd.best_value,
               !.best_epoch = sd.best_epoch,
               !.epochs_since_best = sd.epochs_since_best,
               !.best_epoch_metrics = sd.best_epoch_metrics]

(***************************************************************************)
(* Checkpointer (training/learner_util): the snapshots of one              *)
(* serialization directory.  A store is                                    *)
(*   [snapshots: sequence of records ordered by epoch,                     *)
(*    best: the best-designated weights or None, corrupt: BOOLEAN].        *)
(***************************************************************************)
EmptyStore == [snapshots |-> <<>>, best |-> None, corrupt |-> FALSE]

RECURSIVE DropEpoch(_, _)
DropEpoch(snaps, epoch) ==
    IF snaps = <<>> THEN <<>>
    ELSE IF Head(snaps).epoch = epoch THEN DropEpoch(Tail(snaps), epoch)
    ELSE <<Head(snaps)>> \o DropEpoch(Tail(snaps), epoch)

\* oldest epoch evicted first; a retention count of None disables pruning
Prune(snaps, keep) ==
    IF keep = None \/ Len(snaps) <= keep THEN snaps
    ELSE SubSeq(snaps, Len(snaps) - keep + 1, Len(snaps))

Checkpointer_save_checkpoint(store, keep, model_state, epoch, training_states, best) ==
    LET rec == [epoch |-> epoch, model_state |-> model_state,
                training_state |-> training_states @@ [epoch |-> epoch]]
    IN [store EXCEPT
          !.snapshots = Prune(Append(DropEpoch(@, epoch), rec), keep),
          !.best = IF best THEN model_state ELSE @]

\* the most recent saved epoch's snapshot, or nothing
Checkpointer_restore_checkpoint(store) ==
    IF store.corrupt THEN [raised |-> "RuntimeError"]
    ELSE IF store.snapshots = <<>>
         THEN [raised |-> "none", found |-> FALSE]
         ELSE LET last == store.snapshots[Len(store.snapshots)]
              IN [raised |-> "none", found |-> TRUE,
                  model_state |-> last.model_state,
                  training_state |-> last.training_state]

(***************************************************************************)
(* Trainer.batch_loss, lines 403-416: the loss of one batch from the       *)
(* model's output mapping res.                                             *)
(***************************************************************************)
\* the configured loss function on (logits, label): 0 on a hit, 1 on a miss
loss_func(logits, label) ==
    IF isnan(logits) THEN NaN ELSE IF logits = label THEN 0 ELSE 1

batch_loss(res, label) ==
    IF "loss" \notin DOMAIN res
    THEN IF "coefficient" \in DOMAIN res
         THEN IF "regulariration_loss" \in DOMAIN res
              THEN [raised |-> "none",
                    loss |-> fadd(loss_func(res.logits, label),
                                  fmul(res.coefficient, res.regulariration_loss))]
              ELSE [raised |-> "KeyError", loss |-> None]
         ELSE [raised |-> "none", loss |-> loss_func(res.logits, label)]
    ELSE [raised |-> "none", loss |-> res.loss]


\* what a model may return: logits plus any of the optional entries
OptionalKeys == {"loss", "coefficient", "regularization_loss", "regulariration_loss"}
Output(keys, v) == [k \in keys \cup {"logits"} |-> v[k]]
OutputValues ==
    [logits : {0, 1, NaN}, loss : {0, 2, NaN}, coefficient : {1, 2},
     regularization_loss : {1, 3}, regulariration_loss : {1, 3}]
ModelOutputs == {Output(K, v) : K \in SUBSET OptionalKeys, v \in OutputValues}
Labels == {0, 1}

\* the outputs the batches of learn() draw from: a finite loss from the loss
\* function or from the model, a nan loss from either, and a regularised
\* output
LearnOutputs ==
    {[logits |-> 1], [logits |-> NaN],
     [logits |-> 0, loss |-> 1], [logits |-> 0, loss |-> NaN],
     [logits |-> 1, coefficient |-> 2, regularization_loss |-> 3]}

(***************************************************************************)
(* State.                                                                  *)
(***************************************************************************)
VARIABLES
    conf,           \* the options the Trainer is constructed from
    self,           \* the Trainer's fields that training changes
    store,          \* the serialization directory's snapshots (Checkpointer)
    files,          \* the documents dump_metrics wrote
    pc,             \* position of the process in learn()
    raised,         \* the exception learn() ended with, or "none"
    local,          \* local names of learn(), train_epoch and val_epoch
    grad_enabled,   \* torch's gradient mode (False inside torch.no_grad())
    obs,            \* what this process did: calls made, in order
    uninterrupted,  \* the training state in memory right after the last save
    restarts,       \* interruptions so far
    call,           \* the batch_loss call under study: arguments and result
    past            \* the whole training history, over every process so far

vars == <<conf, self, store, files, pc, raised, local, grad_enabled, obs,
          uninterrupted, restarts, call, past>>

Patiences == {None} \cup (0..MaxPatience)
ValidationMetrics == {<<"+", "f1_measure">>}
KeepSnapshots == 2      \* num_serialized_models_to_keep of the Trainers modelled

\* n_gpus, the number of accelerators present, is read only under multi_gpu
Confs ==
    {cf \in [num_epochs : {0, MaxEpochs}, patience : Patiences,
             val_iter : BOOLEAN, test_iter : BOOLEAN,
             learning_rate_scheduler : BOOLEAN,
             validation_metric : ValidationMetrics,
             use_fp16 : BOOLEAN, multi_gpu : BOOLEAN, n_gpus : {1, 2},
             num_serialized_models_to_keep : {KeepSnapshots}] :
        /\ ~cf.multi_gpu => cf.n_gpus = 1
        /\ cf.use_fp16 => ~cf.multi_gpu}

\* lines 119-123: the model is wrapped, and param_model set, only when
\* multi_gpu is on and more than one accelerator is present
has_module(cf) == cf.multi_gpu /\ cf.n_gpus > 1
has_param_model(cf) == cf.multi_gpu /\ cf.n_gpus > 1

\* Trainer.__init__, lines 55-123
Trainer(cf) ==
    [model |-> [weights |-> 0, training |-> TRUE],
     optimizer |-> 0,
     scheduler |-> 0,
     batch_num_total |-> 0,
     metric |-> 0,
     metric_tracker |-> MetricTracker(cf.patience, cf.validation_metric)]

Locals ==
    [epoch_counter |-> 0, epoch |-> 0, train_epoch |-> 0,
     metrics |-> [best_epoch |-> None, best_validation |-> None, epoch |-> None],
     val_metrics |-> Unbound, this_epoch_val_metric |-> Unbound,
     it |-> 0, batches_this_epoch |-> 0, loss_sum |-> 0, loss |-> None]

Observed ==
    [trained |-> <<>>, saved |-> <<>>, stopped |-> None,
     zero_grad |-> 0, backward |-> 0, step |-> 0, sched_step |-> 0,
     batch_ops |-> <<>>,
     restored |-> None,
     entry |-> [weights |-> None], test_passes |-> 0, test_grad |-> FALSE,
     test_loaded |-> None]

NoFiles == [metrics_epoch |-> {}, test_metrics |-> FALSE, info |-> FALSE]
\* started: training batches started; values, weights and flagged: the
\* validation metric, the weights and the is_best_so_far flag of every epoch
\* saved; best_written: the epoch whose save last changed the best snapshot
NoPast ==
    [started |-> 0, values |-> <<>>, weights |-> <<>>, flagged |-> <<>>,
     best_written |-> None]
NoCall == [res |-> [logits |-> 0], label |-> 0, raised |-> "none", loss |-> None]

Init ==
    /\ conf \in Confs
    /\ self = Trainer(conf)
    /\ store = EmptyStore
    /\ files = NoFiles
    /\ pc = "init"
    /\ raised = "none"
    /\ local = Locals
    /\ grad_enabled = TRUE
    /\ obs = Observed
    /\ uninterrupted = [epoch |-> None]
    /\ restarts = 0
    /\ call = NoCall
    /\ past = NoPast


(***************************************************************************)
(* Trainer.save_checkpoint, lines 240-262.                                 *)
(***************************************************************************)
training_states(slf, cf) ==
    LET base == [metric_traceker |-> tracker_state_dict(slf.metric_tracker),
                 optimizer |-> slf.optimizer,
                 batch_num_total |-> slf.batch_num_total]
    IN IF cf.learning_rate_scheduler
       THEN base @@ [learning_rate_scheduler |-> slf.scheduler]
       ELSE base

\* the weights serialised are the sub-model's, with or without a wrapper
model_state_dict(slf, cf) == slf.model.weights

\* a save that never reaches the Checkpointer
save_checkpoint_skipped(slf, cf, st, epoch) == st

\* a save that designates every epoch the best
save_checkpoint_always_best(slf, cf, st, epoch) ==
    Checkpointer_save_checkpoint(st, cf.num_serialized_models_to_keep,
                                 model_state_dict(slf, cf), epoch,
                                 training_states(slf, cf), TRUE)

\* a save that never designates the best
save_checkpoint_never_best(slf, cf, st, epoch) ==
    Checkpointer_save_checkpoint(st, cf.num_serialized_models_to_keep,
                                 model_state_dict(slf, cf), epoch,
                                 training_states(slf, cf), FALSE)

save_checkpoint(slf, cf, st, epoch) ==
    Checkpointer_save_checkpoint(st, cf.num_serialized_models_to_keep,
                                 model_state_dict(slf, cf), epoch,
                                 training_states(slf, cf),
                                 is_best_so_far(slf.metric_tracker))

(***************************************************************************)
(* Trainer.restore_checkpoint, lines 264-298.  The result is               *)
(* [raised, self, epoch_to_return, found].                                 *)
(***************************************************************************)
RECURSIVE add_metrics(_, _)
add_metrics(mt, values) ==
    IF values = <<>> THEN mt
    ELSE add_metrics(add_metric(mt, Head(values)), Tail(values))

\* lines 279-287: the three historical shapes of the saved tracker state
restore_tracker(mt, training_state) ==
    IF "metric_tracker" \in DOMAIN training_state
    THEN tracker_load_state_dict(mt, training_state.metric_tracker)
    ELSE IF "val_metric_per_epoch" \in DOMAIN training_state
         THEN add_metrics(clear(mt), training_state.val_metric_per_epoch)
         ELSE clear(mt)

\* a restore that ignores what the directory holds
restore_checkpoint_cold(slf, cf, st) ==
    [raised |-> "none", self |-> slf, epoch_to_return |-> 0, found |-> FALSE]

restore_checkpoint(slf, cf, st) ==
    LET r == Checkpointer_restore_checkpoint(st) IN
    IF r.raised # "none"
    THEN [raised |-> r.raised, self |-> slf, epoch_to_return |-> None, found |-> FALSE]
    ELSE IF ~r.found
    THEN [raised |-> "none", self |-> slf, epoch_to_return |-> 0, found |-> FALSE]
    ELSE IF has_module(cf)
    \* line 273: the wrapper's load_state_dict is given the sub-model's keys
    THEN [raised |-> "RuntimeError", self |-> slf, epoch_to_return |-> None, found |-> TRUE]
    ELSE
      LET ts == r.training_state
          s1 == [slf EXCEPT !.model.weights = r.model_state,
                            !.optimizer = ts.optimizer]
          s2 == IF cf.learning_rate_scheduler /\ "learning_rate_scheduler" \in DOMAIN ts
                THEN [s1 EXCEPT !.scheduler = ts.learning_rate_scheduler]
                ELSE s1
          s3 == [s2 EXCEPT !.metric_tracker = restore_tracker(@, ts)]
          s4 == IF "batch_num_total" \in DOMAIN ts /\ ts.batch_num_total # None
                THEN [s3 EXCEPT !.batch_num_total = ts.batch_num_total]
                ELSE s3
      IN [raised |-> "none", self |-> s4, epoch_to_return |-> ts.epoch + 1,
          found |-> TRUE]

\* learn(), lines 132-138: what a failed restore becomes
recovery_error(exc) ==
    IF exc = "RuntimeError" THEN "Exception: could not recover training"
    ELSE exc

\* a check that lets every loss through
nan_loss_unchecked(loss) == FALSE

\* train_epoch, lines 326-327: a nan loss raises
nan_loss(loss) == isnan(loss)

\* a loop that runs one epoch too many
in_range_inclusive(epoch, start, stop) == start <= epoch /\ epoch <= stop

\* learn(), line 151: the epochs the loop runs
in_range(epoch, start, stop) == start <= epoch /\ epoch < stop

Abort(exc) ==
    /\ pc' = "error"
    /\ raised' = exc

(***************************************************************************)
(* learn(), lines 132-149: restore, then the prelude of the epoch loop.    *)
(***************************************************************************)
Learn ==
    /\ pc = "init"
    /\ LET r == restore_checkpoint(self, conf, store) IN
       IF r.raised # "none"
       THEN /\ Abort(recovery_error(r.raised))
            /\ UNCHANGED <<self, local, obs>>
       ELSE /\ self' = r.self
            /\ local' = [local EXCEPT
                 !.epoch_counter = r.epoch_to_return,
                 !.epoch = r.epoch_to_return,
                 !.train_epoch = 0,
                 !.metrics = [best_epoch |-> r.self.metric_tracker.best_epoch,
                              best_validation |-> r.self.metric_tracker.best_epoch_metrics,
                              epoch |-> None]]
            /\ obs' = [obs EXCEPT !.restored =
                          IF r.found THEN r.epoch_to_return - 1 ELSE None]
            /\ pc' = "loop"
            /\ UNCHANGED raised
    /\ UNCHANGED <<conf, store, files, grad_enabled, uninterrupted, restarts, call, past>>

(***************************************************************************)
(* learn(), line 151, and train_epoch's prelude, lines 305-318.            *)
(***************************************************************************)
ForEpoch ==
    /\ pc = "loop"
    /\ IF in_range(local.epoch, local.epoch_counter, conf.num_epochs)
       THEN /\ obs' = [obs EXCEPT !.trained = Append(@, local.epoch)]
            /\ self' = [self EXCEPT !.model.training = TRUE]
            /\ local' = [local EXCEPT !.it = 0, !.batches_this_epoch = 0,
                                      !.loss_sum = 0]
            /\ IF conf.multi_gpu /\ ~has_param_model(conf)
               THEN Abort("AttributeError")          \* line 314
               ELSE pc' = "train" /\ UNCHANGED raised
       ELSE /\ pc' = "endloop"
            /\ UNCHANGED <<self, local, obs, raised>>
    /\ UNCHANGED <<conf, store, files, grad_enabled, uninterrupted, restarts, call, past>>

(***************************************************************************)
(* train_epoch, lines 320-363: one batch of the training iterator.         *)
(***************************************************************************)
HistogramInterval == 2  \* histogram_interval of the Trainers modelled

\* TensorBoardWriter, constructed at lines 91-97 over batch_num_total
should_log_histograms_this_batch(batch_num_total) ==
    batch_num_total % HistogramInterval = 0

Count(ops, name) == Cardinality({i \in DOMAIN ops : ops[i] = name})

\* lines 329-334: the backward pass, under the loss scaler with use_fp16
backward_ops(cf) ==
    IF cf.use_fp16 THEN <<"scale_loss", "backward">> ELSE <<"backward">>

\* a histogram branch that copies the parameters and forgets to step
step_ops_unstepped(histograms) ==
    IF histograms THEN <<"param_updates", "gradient_update">> ELSE <<"step">>

\* lines 338-352: the optimizer step, on both branches
step_ops(histograms) ==
    IF histograms THEN <<"param_updates", "step", "gradient_update">>
    ELSE <<"step">>

\* lines 323-363: the calls of one batch, in order; failed is the exception
\* batch_loss raised, or "none"
train_batch_ops(cf, batch_num_total, failed, loss) ==
    LET histograms == should_log_histograms_this_batch(batch_num_total) IN
    IF failed # "none" THEN <<"zero_grad", "batch_loss">>
    ELSE IF nan_loss(loss) THEN <<"zero_grad", "batch_loss", "isnan">>
    ELSE <<"zero_grad", "batch_loss", "isnan">> \o backward_ops(cf)
         \o <<"rescale_gradients">> \o step_ops(histograms)
         \o (IF histograms THEN <<"log_histograms">> ELSE <<>>)

TrainBatchStep ==
    /\ pc = "train"
    /\ local.it < NumTrainBatches
    /\ \E res \in LearnOutputs :
         LET bl == batch_loss(res, 0)
             counted == [self EXCEPT !.batch_num_total = @ + 1]
             ops == train_batch_ops(conf, counted.batch_num_total, bl.raised,
                                    bl.loss)
             o1 == [obs EXCEPT !.zero_grad = @ + Count(ops, "zero_grad"),
                               !.backward = @ + Count(ops, "backward"),
                               !.step = @ + Count(ops, "step"),
                               !.batch_ops = ops]
             l1 == [local EXCEPT !.it = @ + 1, !.batches_this_epoch = @ + 1,
                                 !.loss = bl.loss]
         IN /\ obs' = o1
            /\ IF bl.raised # "none"
               THEN /\ Abort(bl.raised)
                    /\ self' = counted
                    /\ local' = l1
               ELSE IF nan_loss(bl.loss)
               THEN /\ Abort("ValueError: nan loss encountered")
                    /\ self' = [counted EXCEPT !.metric = @ + 1]
                    /\ local' = l1
               ELSE /\ self' = [counted EXCEPT
                                  !.metric = @ + 1,
                                  !.optimizer = @ + Count(ops, "step"),
                                  !.model.weights = @ + Count(ops, "step")]
                    /\ local' = [l1 EXCEPT !.loss_sum = fadd(@, bl.loss)]
                    /\ UNCHANGED <<pc, raised>>
    /\ UNCHANGED <<conf, store, files, grad_enabled, uninterrupted, restarts, call>>

TrainBatch ==
    /\ TrainBatchStep
    /\ UNCHANGED past

\* the same batch, observed by a count of the batches started so far
CountedTrainBatch ==
    /\ TrainBatchStep
    /\ past' = [past EXCEPT !.started = @ + 1]

\* val_epoch's prelude, lines 419-428
val_epoch_enter(slf, lc) ==
    [self |-> [slf EXCEPT !.model.training = FALSE],
     local |-> [lc EXCEPT !.it = 0, !.batches_this_epoch = 0, !.loss_sum = 0]]

\* what is in memory when val_epoch is entered
entry_of(slf, ob) ==
    [weights |-> slf.model.weights, optimizer |-> slf.optimizer,
     batch_num_total |-> slf.batch_num_total,
     metric_tracker |-> slf.metric_tracker,
     backward |-> ob.backward, step |-> ob.step]

(***************************************************************************)
(* train_epoch's return, lines 365-366, and learn() up to the call of      *)
(* val_epoch, lines 154-163.                                               *)
(***************************************************************************)
TrainEpochEnd ==
    /\ pc = "train"
    /\ local.it = NumTrainBatches
    /\ LET reset == [self EXCEPT !.metric = 0] IN
       IF conf.val_iter
       THEN LET e == val_epoch_enter(reset, local) IN
            /\ self' = e.self
            /\ local' = e.local
            /\ grad_enabled' = FALSE
            /\ obs' = [obs EXCEPT !.entry = entry_of(reset, obs)]
            /\ pc' = "val"
       ELSE /\ self' = reset
            /\ pc' = "tail"
            /\ UNCHANGED <<local, grad_enabled, obs>>
    /\ UNCHANGED <<conf, store, files, raised, uninterrupted, restarts, call, past>>


(***************************************************************************)
(* val_epoch, lines 430-435: one batch of the validation or test iterator. *)
(***************************************************************************)
\* an evaluation batch that counts as a training batch
val_epoch_batch_counted(slf) ==
    [slf EXCEPT !.metric = @ + 1, !.batch_num_total = @ + 1]

\* batch_loss's update of the metric accumulator, lines 411-415, is all that
\* a batch of val_epoch changes in the Trainer
val_epoch_batch(slf) == [slf EXCEPT !.metric = @ + 1]

ValEpochBatch ==
    /\ pc \in {"val", "test"}
    /\ local.it < NumEvalBatches
    /\ \E res \in LearnOutputs :
         LET bl == batch_loss(res, 0) IN
         IF bl.raised # "none"
         THEN /\ Abort(bl.raised)
              /\ local' = [local EXCEPT !.it = @ + 1]
              /\ UNCHANGED <<self, obs>>
         ELSE /\ self' = val_epoch_batch(self)
              /\ local' = IF bl.loss # None
                          THEN [local EXCEPT !.it = @ + 1, !.loss = bl.loss,
                                             !.batches_this_epoch = @ + 1,
                                             !.loss_sum = fadd(@, bl.loss)]
                          ELSE [local EXCEPT !.it = @ + 1, !.loss = bl.loss]
              /\ obs' = obs
              /\ UNCHANGED <<pc, raised>>
    /\ UNCHANGED <<conf, store, files, grad_enabled, uninterrupted, restarts, call, past>>

(***************************************************************************)
(* val_epoch's return and learn(), lines 164-170: the validation metric    *)
(* goes to the tracker, and the loop breaks when patience ran out.         *)
(***************************************************************************)
ValEnd ==
    /\ pc = "val"
    /\ local.it = NumEvalBatches
    /\ \E value \in 0..MaxMetric :
         LET mt == add_metric(self.metric_tracker, value) IN
         /\ self' = [self EXCEPT !.metric = 0, !.metric_tracker = mt]
         /\ local' = [local EXCEPT !.val_metrics = value,
                                   !.this_epoch_val_metric = value]
         /\ IF should_stop_early(mt)
            THEN /\ pc' = "endloop"
                 /\ obs' = [obs EXCEPT !.stopped = local.epoch]
            ELSE /\ pc' = "tail"
                 /\ obs' = obs
    /\ grad_enabled' = TRUE
    /\ UNCHANGED <<conf, store, files, raised, uninterrupted, restarts, call, past>>

\* the training state in memory, as a resumed run has to find it again
training_state_of(slf, epoch) ==
    [epoch |-> epoch, weights |-> slf.model.weights,
     optimizer |-> slf.optimizer, scheduler |-> slf.scheduler,
     batch_num_total |-> slf.batch_num_total,
     metric_tracker |-> tracker_state_dict(slf.metric_tracker)]

(***************************************************************************)
(* learn(), lines 172-202: bookkeeping, metrics document, scheduler step,  *)
(* checkpoint.                                                             *)
(***************************************************************************)
\* a record whose best_epoch follows every epoch
epoch_metrics_latest(metrics, best, epoch, val_metrics) ==
    [metrics EXCEPT !.epoch = epoch, !.best_epoch = epoch,
                    !.best_validation = val_metrics]

\* lines 177-189: the cumulative metrics record after an epoch
epoch_metrics(metrics, best, epoch, val_metrics) ==
    IF best
    THEN [metrics EXCEPT !.epoch = epoch, !.best_epoch = epoch,
                         !.best_validation = val_metrics]
    ELSE [metrics EXCEPT !.epoch = epoch]

\* a scheduler that is never stepped
scheduler_step_skipped(slf, cf) == slf

\* lines 196-199: the scheduler's step, when one is configured
scheduler_step(slf, cf) ==
    IF cf.learning_rate_scheduler THEN [slf EXCEPT !.scheduler = @ + 1]
    ELSE slf

EpochTail ==
    /\ pc = "tail"
    /\ IF local.val_metrics = Unbound
       THEN /\ Abort("UnboundLocalError")             \* line 172
            /\ UNCHANGED <<self, local, store, files, obs, uninterrupted, past>>
       ELSE LET best == is_best_so_far(self.metric_tracker)
                m2 == epoch_metrics(local.metrics, best, local.epoch,
                                    local.val_metrics)
                s1 == IF best
                      THEN [self EXCEPT !.metric_tracker.best_epoch_metrics =
                                            local.val_metrics]
                      ELSE self
                s2 == scheduler_step(s1, conf)
            IN /\ self' = s2
               /\ files' = [files EXCEPT !.metrics_epoch = @ \cup {local.epoch}]
               /\ store' = save_checkpoint(s2, conf, store, local.epoch)
               /\ uninterrupted' = training_state_of(s2, local.epoch)
               /\ past' = [past EXCEPT
                    !.values = Append(@, local.this_epoch_val_metric),
                    !.weights = Append(@, model_state_dict(s2, conf)),
                    !.flagged = Append(@, best),
                    !.best_written = IF store'.best # store.best
                                     THEN local.epoch ELSE @]
               /\ local' = [local EXCEPT !.metrics = m2, !.train_epoch = @ + 1,
                                         !.epoch = @ + 1]
               /\ obs' = [obs EXCEPT !.saved = Append(@, local.epoch),
                                     !.sched_step = @ + s2.scheduler - s1.scheduler]
               /\ pc' = "loop"
               /\ UNCHANGED raised
    /\ UNCHANGED <<conf, grad_enabled, restarts, call>>

(***************************************************************************)
(* learn(), lines 204-210: after the loop, the best weights are loaded and *)
(* val_epoch is entered in test mode; without a test iterator learn()      *)
(* goes on to dump_info and returns (lines 216-218).                       *)
(***************************************************************************)
AfterLoop ==
    /\ pc = "endloop"
    /\ IF ~conf.test_iter
       THEN /\ files' = [files EXCEPT !.info = TRUE]
            /\ pc' = "done"
            /\ UNCHANGED <<self, local, obs, raised>>
       ELSE IF conf.multi_gpu /\ ~has_param_model(conf)
       THEN /\ Abort("AttributeError")                 \* line 206
            /\ UNCHANGED <<self, local, obs, files>>
       ELSE IF store.best = None
       THEN /\ Abort("FileNotFoundError")              \* best.th
            /\ UNCHANGED <<self, local, obs, files>>
       ELSE LET loaded == [self EXCEPT !.model.weights = store.best]
                e == val_epoch_enter(loaded, local)
            IN /\ self' = e.self
               /\ local' = e.local
               /\ obs' = [obs EXCEPT !.entry = entry_of(loaded, obs),
                                     !.test_passes = @ + 1,
                                     !.test_grad = grad_enabled,
                                     !.test_loaded = store.best]
               /\ pc' = "test"
               /\ UNCHANGED <<raised, files>>
    /\ UNCHANGED <<conf, store, grad_enabled, uninterrupted, restarts, call, past>>

(***************************************************************************)
(* learn(), lines 211-218: the test metrics document, dump_info, return.   *)
(***************************************************************************)
TestEnd ==
    /\ pc = "test"
    /\ local.it = NumEvalBatches
    /\ self' = [self EXCEPT !.metric = 0]
    /\ files' = [files EXCEPT !.test_metrics = TRUE, !.info = TRUE]
    /\ pc' = "done"
    /\ UNCHANGED <<conf, store, raised, local, grad_enabled, obs, uninterrupted,
                   restarts, call, past>>

(***************************************************************************)
(* The process is interrupted, and a fresh Trainer is constructed from the *)
(* same options on the same serialization directory, whose latest snapshot *)
(* may have become unreadable in between.                                  *)
(***************************************************************************)
Restart ==
    /\ pc # "init"
    /\ restarts < MaxRestarts
    /\ restarts' = restarts + 1
    /\ self' = Trainer(conf)
    /\ local' = Locals
    /\ obs' = Observed
    /\ grad_enabled' = TRUE
    /\ pc' = "init"
    /\ raised' = "none"
    /\ \/ store' = store
       \/ /\ store.snapshots # <<>>
          /\ store' = [store EXCEPT !.corrupt = TRUE]
    /\ UNCHANGED <<conf, files, uninterrupted, call, past>>

\* a step of the process running learn()
LearnStep ==
    \/ Learn
    \/ ForEpoch
    \/ TrainBatch
    \/ TrainEpochEnd
    \/ ValEpochBatch
    \/ ValEnd
    \/ EpochTail
    \/ AfterLoop
    \/ TestEnd

Next ==
    \/ LearnStep
    \/ Restart

Spec == Init /\ [][Next]_vars

(***************************************************************************)
(* The same processes with every training batch counted over the whole     *)
(* history, for runs that validate every epoch on one accelerator.         *)
(***************************************************************************)
HistoryInit ==
    /\ Init
    /\ conf.val_iter /\ ~conf.multi_gpu /\ ~conf.use_fp16
    /\ ~conf.learning_rate_scheduler
    /\ conf.num_epochs = MaxEpochs

HistoryNext ==
    \/ Learn
    \/ ForEpoch
    \/ CountedTrainBatch
    \/ TrainEpochEnd
    \/ ValEpochBatch
    \/ ValEnd
    \/ EpochTail
    \/ AfterLoop
    \/ TestEnd
    \/ Restart

HistorySpec == HistoryInit /\ [][HistoryNext]_vars

(***************************************************************************)
(* batch_loss on its own: every model output and label, one call each.     *)
(***************************************************************************)
LossInit ==
    /\ conf \in {cf \in Confs : cf.num_epochs = 0 /\ cf.patience = None
                               /\ ~cf.val_iter /\ ~cf.test_iter
                               /\ ~cf.learning_rate_scheduler
                               /\ ~cf.use_fp16 /\ ~cf.multi_gpu}
    /\ self = Trainer(conf)
    /\ store = EmptyStore
    /\ files = NoFiles
    /\ pc = "batch_loss"
    /\ raised = "none"
    /\ local = Locals
    /\ grad_enabled = TRUE
    /\ obs = Observed
    /\ uninterrupted = [epoch |-> None]
    /\ restarts = 0
    /\ past = NoPast
    /\ \E res \in ModelOutputs, label \in Labels :
          call = [res |-> res, label |-> label, raised |-> "none", loss |-> None]

BatchLoss ==
    /\ pc = "batch_loss"
    /\ LET bl == batch_loss(call.res, call.label) IN
       /\ call' = [call EXCEPT !.raised = bl.raised, !.loss = bl.loss]
       /\ self' = IF bl.raised = "none" THEN val_epoch_batch(self) ELSE self
    /\ pc' = "returned"
    /\ UNCHANGED <<conf, store, files, raised, local, grad_enabled, obs,
                   uninterrupted, restarts, past>>

LossNext == BatchLoss

LossSpec == LossInit /\ [][LossNext]_vars


(***************************************************************************)
(* Properties.                                                             *)
(***************************************************************************)
AfterTheLoop == pc \in {"endloop", "test", "done"}
LastSnapshot == store.snapshots[Len(store.snapshots)]
Upto(first, n) == [i \in 1..n |-> first + i - 1]

\* C1 (as stated): save_checkpoint(epoch) is executed for every epoch whose
\* train_epoch ran, the epoch at which should_stop_early() became true
\* included, so that after an early stop the most recent checkpoint is the
\* one of the stopping epoch.
C1_SavedEveryTrainedEpoch ==
    AfterTheLoop =>
        /\ obs.saved = obs.trained
        /\ obs.stopped # None =>
              /\ store.snapshots # <<>>
              /\ LastSnapshot.epoch = obs.stopped

\* C1 (amended): save_checkpoint(epoch) is executed for every epoch whose
\* train_epoch ran except the epoch at which should_stop_early() became
\* true: the break comes before the save, so after an early stop the most
\* recent checkpoint is the one of the epoch before the stopping epoch, if
\* there is one.
C1_SavedEveryEpochButTheStopping ==
    AfterTheLoop =>
        /\ obs.stopped = None => obs.saved = obs.trained
        /\ obs.stopped # None =>
              /\ obs.trained = Append(obs.saved, obs.stopped)
              /\ IF obs.stopped = 0
                 THEN store.snapshots = <<>>
                 ELSE /\ store.snapshots # <<>>
                      /\ LastSnapshot.epoch = obs.stopped - 1

C1_Witness ==
    /\ pc = "done"
    /\ obs.stopped = 2
    /\ obs.saved = <<0, 1>>


\* the process has just restored the snapshot of epoch E and stands at the
\* head of the epoch loop
JustRestored ==
    /\ pc = "loop"
    /\ obs.restored # None
    /\ obs.trained = <<>>

\* C2: a fresh Trainer that restores the snapshot saved at epoch E gets
\* E + 1 as next epoch, and optimizer state, scheduler state, MetricTracker
\* state (history, best value, best epoch, epochs since best) and
\* batch_num_total equal to those in memory right after epoch E was saved.
C2_ResumeRoundTrip ==
    JustRestored =>
        /\ obs.restored = uninterrupted.epoch
        /\ local.epoch_counter = uninterrupted.epoch + 1
        /\ self.optimizer = uninterrupted.optimizer
        /\ self.scheduler = uninterrupted.scheduler
        /\ self.batch_num_total = uninterrupted.batch_num_total
        /\ self.metric_tracker.history = uninterrupted.metric_tracker.history
        /\ self.metric_tracker.best_value = uninterrupted.metric_tracker.best_value
        /\ self.metric_tracker.best_epoch = uninterrupted.metric_tracker.best_epoch
        /\ self.metric_tracker.epochs_since_best =
               uninterrupted.metric_tracker.epochs_since_best

\* the validation value at (0-based) epoch j is strictly better than every
\* earlier one
Better(higher, a, b) == IF higher THEN a > b ELSE a < b
Improved(h, higher, j) == \A k \in 0..(j - 1) : Better(higher, h[j + 1], h[k + 1])
\* at epoch i the metric has not improved for p consecutive epochs
OutOfPatience(h, higher, p, i) ==
    /\ i - p + 1 >= 0
    /\ \A j \in (i - p + 1)..i : ~Improved(h, higher, j)
\* the earliest epoch holding the best value of h
EarliestBest(h, higher) ==
    LET b == IF higher THEN SeqMax(h) ELSE SeqMin(h)
    IN CHOOSE i \in 0..(Len(h) - 1) :
         /\ h[i + 1] = b
         /\ \A k \in 0..(i - 1) : h[k + 1] # b

\* what C3 says of a cold-start learn() with a validation iterator, for a
\* patience p, once the epoch loop has ended
EarlyStoppingEndToEnd(p) ==
    LET h == self.metric_tracker.history
        higher == self.metric_tracker.is_higher_better
        last == Len(h) - 1
    IN /\ obs.trained = Upto(0, Len(h))
       /\ \A i \in 0..(last - 1) : ~OutOfPatience(h, higher, p, i)
       /\ \/ last = conf.num_epochs - 1
          \/ last >= 0 /\ OutOfPatience(h, higher, p, last)
       /\ h # <<>> => local.metrics.best_epoch = EarliestBest(h, higher)

ColdStartWithValidation ==
    /\ AfterTheLoop
    /\ restarts = 0
    /\ conf.val_iter
    /\ conf.patience # None

\* C3 (as stated): in a cold-start learn() with a validation iterator and
\* patience p, train_epoch runs for the epochs 0..s and no later one, s the
\* first epoch at which the metric has not strictly improved for p
\* consecutive epochs (num_epochs - 1 if there is none), and the returned
\* best_epoch is the earliest epoch holding the best validation value.
C3_EarlyStopping ==
    ColdStartWithValidation => EarlyStoppingEndToEnd(conf.patience)

\* C3 (amended): the same, for a patience p >= 1.  With patience 0 the
\* loop breaks at epoch 0, which is the best epoch, before best_epoch is
\* recorded.
C3_EarlyStoppingPositivePatience ==
    (ColdStartWithValidation /\ conf.patience >= 1)
        => EarlyStoppingEndToEnd(conf.patience)

C3_Witness ==
    /\ pc = "done"
    /\ restarts = 0
    /\ conf.patience = 1
    /\ self.metric_tracker.history = <<0, 1, 1>>
    /\ obs.stopped = 2
    /\ local.metrics.best_epoch = 1

\* C4: learn() completes without error when an optional component is
\* missing: without a validation iterator every epoch still trains and is
\* checkpointed, with no validation pass and no tracker update; without a
\* scheduler no scheduler step; without a test iterator no test pass.
C4_OptionalComponents ==
    /\ raised # "UnboundLocalError"
    /\ (~conf.val_iter /\ pc \in {"loop", "endloop", "done"}) =>
          /\ obs.saved = obs.trained
          /\ self.metric_tracker.history = <<>>
    /\ ~conf.learning_rate_scheduler => obs.sched_step = 0
    /\ ~conf.test_iter => obs.test_passes = 0

\* the batch just processed was a training batch and its loss was nan
TrainLossIsNaN ==
    /\ self.model.training
    /\ local.it > 0
    /\ isnan(local.loss)

\* C5 (as stated): a nan loss of any batch processed during learn(), of a
\* training, validation or test pass, aborts learn() at that batch.
C5_NaNLossAborts ==
    (pc # "init" /\ isnan(local.loss)) =>
        /\ pc = "error"
        /\ raised = "ValueError: nan loss encountered"

\* C5 (amended): a nan loss of a training batch aborts learn() with an
\* error at that batch: no backward pass and no optimizer step for that
\* batch, no later batch or epoch, no checkpoint afterwards.  (val_epoch
\* has no nan check: a nan loss of a validation or test batch is summed
\* and learn() goes on.)
C5_TrainNaNLossAborts ==
    TrainLossIsNaN =>
        /\ pc = "error"
        /\ raised = "ValueError: nan loss encountered"
        /\ obs.backward = obs.zero_grad - 1
        /\ obs.step = obs.zero_grad - 1
        /\ local.epoch \notin Range(obs.saved)
        /\ ~ENABLED LearnStep

C5_Witness ==
    /\ TrainLossIsNaN
    /\ pc = "error"
    /\ local.epoch = 1
    /\ local.it = 2
    /\ obs.step = 3

\* a snapshot written by an earlier process is in the directory, and this
\* process is past its restore
SnapshotFound ==
    /\ pc # "init"
    /\ store.snapshots # <<>>
    /\ obs.saved = <<>>

RecoveryFailed ==
    /\ pc = "error"
    /\ raised = "Exception: could not recover training"

C7_EpochLoop ==
    /\ Len(obs.trained) <= conf.num_epochs
    /\ obs.trained = Upto(local.epoch_counter, Len(obs.trained))
    /\ (AfterTheLoop /\ obs.stopped = None) =>
          obs.trained = Upto(local.epoch_counter,
                             IF conf.num_epochs > local.epoch_counter
                             THEN conf.num_epochs - local.epoch_counter ELSE 0)
    /\ (pc = "loop" /\ obs.trained = Upto(local.epoch_counter,
                                          conf.num_epochs - local.epoch_counter))
          => ~ENABLED (ForEpoch /\ pc' = "train")

C7_Witness ==
    /\ pc = "done"
    /\ obs.stopped = None
    /\ obs.restored = 0
    /\ obs.trained = <<1, 2>>

C7_WitnessNoEpochLeft ==
    /\ pc = "done"
    /\ obs.restored = 2
    /\ conf.num_epochs = 3
    /\ obs.trained = <<>>

\* C8: however the epoch loop ended, with a test iterator learn() reloads
\* the best-designated weights, runs exactly one evaluation pass over the
\* test iterator with gradient computation disabled and without parameter
\* update, and writes the test metrics apart from the per-epoch metrics.
C8_TestPass ==
    /\ (conf.test_iter /\ pc \in {"test", "done"}) =>
          /\ obs.test_passes = 1
          /\ obs.test_loaded = store.best
          /\ ~obs.test_grad
          /\ self.model.weights = store.best
    /\ (conf.test_iter /\ pc = "done") => files.test_metrics

\* C9: batch_loss returns the model's loss when the output has `loss` and
\* loss_func(logits, label) otherwise, plus coefficient *
\* regularization_loss whenever the output has `coefficient` and
\* `regularization_loss`.
C9_BatchLoss ==
    pc = "returned" =>
        LET res == call.res
            base == IF "loss" \in DOMAIN res THEN res.loss
                    ELSE loss_func(res.logits, call.label)
        IN /\ call.raised = "none"
           /\ call.loss =
                IF {"coefficient", "regularization_loss"} \subseteq DOMAIN res
                THEN fadd(base, fmul(res.coefficient, res.regularization_loss))
                ELSE base

\* C10: val_epoch leaves the model parameters, the optimizer state,
\* batch_num_total and the MetricTracker as they were when it was entered,
\* calls neither backward nor optimizer.step, updates the metric
\* accumulator only, and counts every batch the iterator produced.
C10_ValEpochFrame ==
    pc \in {"val", "test"} =>
        /\ entry_of(self, obs) = obs.entry
        /\ ~self.model.training
        /\ self.metric = local.it
        /\ local.batches_this_epoch = local.it
        /\ local.it <= NumEvalBatches

C10_Witness ==
    /\ pc = "val"
    /\ local.it = NumEvalBatches
    /\ self.batch_num_total = 2 * NumTrainBatches
    /\ self.metric_tracker.history # <<>>

\* C11: with the model wrapped for several accelerators, save_checkpoint and
\* restore_checkpoint both address the sub-model: a checkpoint written by a
\* wrapped Trainer is restored successfully by a wrapped Trainer, which gets
\* the sub-model weights that were saved.
C11_WrappedRoundTrip ==
    (has_module(conf) /\ SnapshotFound /\ ~store.corrupt) =>
        /\ ~RecoveryFailed
        /\ obs.restored = LastSnapshot.epoch
        /\ (pc = "loop" /\ obs.trained = <<>>) =>
              self.model.weights = LastSnapshot.model_state

\* C12: multi_gpu and use_fp16 do not change the control flow: with either
\* flag set, and whatever the number of accelerators, the run performs the
\* events of the run with both flags off.  In particular it ends in no
\* exception the run without flags cannot end in (that run raises no
\* AttributeError and fails to recover only from an unreadable snapshot),
\* and every epoch it enters starts a training batch.
C12_FlagsKeepControlFlow ==
    (conf.multi_gpu \/ conf.use_fp16) =>
        /\ raised # "AttributeError"
        /\ RecoveryFailed => store.corrupt
        /\ (pc = "error" /\ obs.trained # <<>>) => obs.zero_grad > 0

(***************************************************************************)
(* The MetricTracker on its own: learn() adds one validation value per     *)
(* epoch (line 166), for a metric of either direction.                     *)
(***************************************************************************)
MaxHistory == 5
Directions == {<<"+", "f1_measure">>, <<"-", "loss">>}

TrackerInit ==
    /\ \E cf \in Confs, vm \in Directions :
          /\ cf.num_epochs = 0 /\ cf.val_iter /\ ~cf.test_iter
          /\ ~cf.learning_rate_scheduler /\ ~cf.use_fp16 /\ ~cf.multi_gpu
          /\ conf = [cf EXCEPT !.validation_metric = vm]
    /\ self = Trainer(conf)
    /\ store = EmptyStore
    /\ files = NoFiles
    /\ pc = "val"
    /\ raised = "none"
    /\ local = Locals
    /\ grad_enabled = FALSE
    /\ obs = Observed
    /\ uninterrupted = [epoch |-> None]
    /\ restarts = 0
    /\ call = NoCall
    /\ past = NoPast

AddMetric ==
    /\ Len(self.metric_tracker.history) < MaxHistory
    /\ \E value \in 0..MaxMetric :
         /\ self' = [self EXCEPT !.metric_tracker = add_metric(@, value)]
         /\ local' = [local EXCEPT !.this_epoch_val_metric = value]
    /\ UNCHANGED <<conf, store, files, pc, raised, grad_enabled, obs,
                   uninterrupted, restarts, call, past>>

TrackerNext == AddMetric

TrackerSpec == TrackerInit /\ [][TrackerNext]_vars

\* C13: after any sequence of add_metric calls, best_epoch is the index in
\* history of the extremum (the maximum if higher is better, the minimum
\* otherwise; of equal values the earliest), epochs_since_best is
\* len(history) - 1 - best_epoch, and is_best_so_far() is true exactly when
\* the latest value is strictly better than every previous value or is the
\* first value.
C13_TrackerInvariant ==
    LET mt == self.metric_tracker
        h == mt.history
        last == Len(h) - 1
    IN h # <<>> =>
         /\ mt.best_epoch = EarliestBest(h, mt.is_higher_better)
         /\ mt.best_value = h[mt.best_epoch + 1]
         /\ mt.epochs_since_best = last - mt.best_epoch
         /\ is_best_so_far(mt) <=> Improved(h, mt.is_higher_better, last)

\* a lower-is-better history whose minimum occurs twice, then a worse value
C13_Witness ==
    /\ ~self.metric_tracker.is_higher_better
    /\ self.metric_tracker.history = <<1, 0, 0, 1>>
    /\ self.metric_tracker.best_epoch = 1
    /\ ~is_best_so_far(self.metric_tracker)

\* a higher-is-better history whose latest value is a new maximum
C13_WitnessBest ==
    /\ self.metric_tracker.is_higher_better
    /\ self.metric_tracker.history = <<0, 0, 1>>
    /\ is_best_so_far(self.metric_tracker)

\* the epochs saved so far, over every process
SavedEpochs == Len(past.values)
\* the last epoch saved with is_best_so_far() true, or None
LastFlagged ==
    IF \E e \in 1..SavedEpochs : past.flagged[e]
    THEN (CHOOSE e \in 1..SavedEpochs :
            past.flagged[e] /\ \A f \in (e + 1)..SavedEpochs : ~past.flagged[f]) - 1
    ELSE None

\* C14: after N epochs were saved under a retention cap K, the K most recent
\* epochs' snapshots remain when K < N (all N otherwise), each with the
\* weights saved at its epoch, and the best-designated snapshot holds the
\* weights of the last epoch saved with is_best_so_far() true, wherever that
\* epoch lies among the saves.
C14_Retention ==
    LET K == conf.num_serialized_models_to_keep
        N == SavedEpochs
        kept == IF K < N THEN K ELSE N
    IN /\ Len(store.snapshots) = kept
       /\ \A i \in 1..kept :
            /\ store.snapshots[i].epoch = N - kept + i - 1
            /\ store.snapshots[i].model_state = past.weights[N - kept + i]
       /\ store.best = IF LastFlagged = None THEN None
                       ELSE past.weights[LastFlagged + 1]

\* three epochs saved under a cap of two, the best one being the evicted
C14_Witness ==
    /\ SavedEpochs = KeepSnapshots + 1
    /\ conf.num_serialized_models_to_keep = KeepSnapshots
    /\ Len(store.snapshots) = KeepSnapshots
    /\ store.snapshots[1].epoch = 1
    /\ LastFlagged = 0
    /\ store.best = past.weights[1]

(***************************************************************************)
(* Trainer.batch_loss, lines 377-392: the mask of one batch, on its own.   *)
(* batch_group.TEXT is a tensor of token ids of shape [seq_len, batch],    *)
(* or a pair of such a tensor and the tensor of the examples' lengths.     *)
(***************************************************************************)
PaddingIdx == 1         \* padding_idx of the Trainers modelled
MaxLen == 4             \* longest example of a batch that carries lengths
BatchSize == 3          \* examples of a batch that carries lengths
MaxSeqLen == 3          \* longest batch without lengths
TensorBatch == 2        \* examples of a batch without lengths
Tokens == {PaddingIdx, PaddingIdx + 1}

Tensor1(values) == [kind |-> "tensor", dim |-> 1, values |-> values]
Tensor2(rows) == [kind |-> "tensor", dim |-> 2, rows |-> rows]
Pair(data, lengths) == [kind |-> "tuple", data |-> data, lengths |-> lengths]

\* a batch padded to its longest example, and its lengths
Padded(lengths) ==
    Tensor2([j \in 1..SeqMax(lengths) |->
               [i \in 1..Len(lengths) |->
                  IF j <= lengths[i] THEN PaddingIdx + 1 ELSE PaddingIdx]])

Texts ==
    {Pair(Padded(lengths), Tensor1(lengths)) :
        lengths \in [1..BatchSize -> 1..MaxLen]}
    \cup UNION {{Tensor2(rows) : rows \in [1..n -> [1..TensorBatch -> Tokens]]} :
                    n \in 1..MaxSeqLen}

\* python's len(): the items of a tuple, the first dimension of a tensor
len(x) ==
    IF x.kind = "tuple" THEN 2
    ELSE IF x.dim = 2 THEN Len(x.rows) ELSE Len(x.values)

\* x[k], k counted from 0: an item of a pair, a row of a tensor
item(x, k) ==
    IF x.kind = "tuple" THEN (IF k = 0 THEN x.data ELSE x.lengths)
    ELSE Tensor1(x.rows[k + 1])

\* Tensor.t(): the transpose of a matrix; a vector is returned as it is
t(x) ==
    IF x.dim = 2
    THEN Tensor2([i \in 1..Len(x.rows[1]) |->
                    [j \in 1..Len(x.rows) |-> x.rows[j][i]]])
    ELSE x

\* Tensor.size(d) exists for the dimensions the tensor has
has_size(x, d) == d < x.dim
size(x, d) == IF d = 0 THEN Len(x.rows) ELSE Len(x.rows[1])

\* generate_mask (training/learner_util): position j of example i is valid
\* when j is below the example's length
generate_mask(lengths, seq_len, batch_size) ==
    [i \in 1..batch_size |->
       [j \in 1..seq_len |-> IF j <= lengths.values[i] THEN 1 ELSE 0]]

\* line 392: (data != padding_idx).long()
padding_mask(data, padding_idx) ==
    [i \in 1..Len(data.rows) |->
       [j \in 1..Len(data.rows[i]) |->
          IF data.rows[i][j] # padding_idx THEN 1 ELSE 0]]

\* lines 377-392; the result is [raised, mask]
batch_mask(tmp, padding_idx) ==
    IF len(tmp) = 2
    THEN LET data == t(item(tmp, 0))
             data_seq_length == item(tmp, 1)
         IN IF ~has_size(data, 1)
            THEN [raised |-> "IndexError", mask |-> None]
            ELSE [raised |-> "none",
                  mask |-> generate_mask(data_seq_length, size(data, 1),
                                         size(data, 0))]
    ELSE [raised |-> "none", mask |-> padding_mask(t(tmp), padding_idx)]

MaskInit ==
    /\ conf \in {cf \in Confs : cf.num_epochs = 0 /\ cf.patience = None
                               /\ ~cf.val_iter /\ ~cf.test_iter
                               /\ ~cf.learning_rate_scheduler
                               /\ ~cf.use_fp16 /\ ~cf.multi_gpu}
    /\ self = Trainer(conf)
    /\ store = EmptyStore
    /\ files = NoFiles
    /\ pc = "batch_mask"
    /\ raised = "none"
    /\ local = Locals
    /\ grad_enabled = TRUE
    /\ obs = Observed
    /\ uninterrupted = [epoch |-> None]
    /\ restarts = 0
    /\ past = NoPast
    /\ \E text \in Texts : call = [TEXT |-> text, raised |-> "none", mask |-> None]

BatchMask ==
    /\ pc = "batch_mask"
    /\ LET bm == batch_mask(call.TEXT, PaddingIdx) IN
       call' = [call EXCEPT !.raised = bm.raised, !.mask = bm.mask]
    /\ pc' = "returned"
    /\ UNCHANGED <<conf, self, store, files, raised, local, grad_enabled, obs,
                   uninterrupted, restarts, past>>

MaskNext == BatchMask

MaskSpec == MaskInit /\ [][MaskNext]_vars

\* what C15 says of a batch with lengths and of a batch without
MaskOfLengths ==
    LET lengths == call.TEXT.lengths.values
        max_length == SeqMax(lengths)
    IN /\ call.raised = "none"
       /\ Len(call.mask) = Len(lengths)
       /\ \A i \in 1..Len(lengths) :
            /\ Len(call.mask[i]) = max_length
            /\ \A j \in 1..max_length :
                 call.mask[i][j] = 1 <=> j - 1 < lengths[i]
            /\ \A j \in 1..max_length : call.mask[i][j] \in {0, 1}

MaskOfPadding ==
    LET rows == call.TEXT.rows
    IN /\ call.raised = "none"
       /\ Len(call.mask) = Len(rows[1])
       /\ \A i \in 1..Len(rows[1]) :
            /\ Len(call.mask[i]) = Len(rows)
            /\ \A j \in 1..Len(rows) :
                 call.mask[i][j] = 1 <=> rows[j][i] # PaddingIdx
            /\ \A j \in 1..Len(rows) : call.mask[i][j] \in {0, 1}

\* C15: the mask batch_loss passes to the model marks exactly the valid
\* positions: with lengths, mask[i][j] = 1 iff j < length[i], in a mask of
\* shape [batch, max_length]; without lengths, mask[i][j] = 1 iff token
\* [i][j] differs from the padding index.
C15_Mask ==
    pc = "returned" =>
        IF call.TEXT.kind = "tuple" THEN MaskOfLengths ELSE MaskOfPadding

\* the steps of a training batch the claim orders, and those among ops
BatchOrder ==
    <<"zero_grad", "batch_loss", "isnan", "backward", "rescale_gradients", "step">>
Ordered(op) == op \in Range(BatchOrder)
\* a training batch has just run to its end
BatchFinished == pc = "train" /\ local.it > 0

\* C16: every training batch zeroes the gradients, runs the forward pass and
\* loss, checks for NaN, runs the backward pass, rescales the gradients and
\* steps the optimizer, in this order; a batch whose loss is not NaN steps
\* the optimizer exactly once, with and without histogram logging, a batch
\* whose loss is NaN not at all; a batch is finished before the next starts.
C16_BatchOrder ==
    LET ops == obs.batch_ops
        ordered == SelectSeq(ops, Ordered)
    IN /\ ops # <<>> => ordered = SubSeq(BatchOrder, 1, Len(ordered))
       /\ BatchFinished =>
            /\ ordered = BatchOrder
            /\ Count(ops, "step") = 1
            /\ ("param_updates" \in Range(ops)) <=>
                  should_log_histograms_this_batch(self.batch_num_total)
       /\ TrainLossIsNaN =>
            /\ ordered = SubSeq(BatchOrder, 1, 3)
            /\ Count(ops, "step") = 0
       /\ obs.backward = obs.step
       /\ obs.zero_grad - obs.step \in {0, 1}
       /\ pc = "train" =>
            /\ obs.zero_grad = obs.step
            /\ obs.step = (Len(obs.trained) - 1) * NumTrainBatches + local.it

\* a batch on the histogram-logging branch
C16_Witness ==
    /\ BatchFinished
    /\ "param_updates" \in Range(obs.batch_ops)
    /\ Count(obs.batch_ops, "step") = 1

\* a batch on the other branch, under the loss scaler
C16_WitnessNoHistograms ==
    /\ BatchFinished
    /\ "param_updates" \notin Range(obs.batch_ops)
    /\ "scale_loss" \in Range(obs.batch_ops)
    /\ Count(obs.batch_ops, "step") = 1

\* C17: across an interruption and resume, the best-designated checkpoint is
\* overwritten only by an epoch whose validation metric is strictly better
\* than that of every earlier epoch, those run before the interruption
\* included.
C17_BestOnlyByBetter ==
    past.best_written # None =>
        \A k \in 0..(past.best_written - 1) :
            Better(is_higher_better(conf.validation_metric),
                   past.values[past.best_written + 1], past.values[k + 1])

\* C18: in a cold-start learn() with a validation iterator and patience >= 1,
\* the epoch at which early stopping fires is never the best epoch; so when
\* learn() leaves the epoch loop (epochs exhausted or early stop) with at
\* least one epoch completed, the best-designated checkpoint holds the
\* weights saved at epoch metrics['best_epoch'], the earliest epoch with the
\* best validation value.
C18_BestCheckpointAtEnd ==
    (ColdStartWithValidation /\ conf.patience >= 1) =>
        LET mt == self.metric_tracker IN
        /\ obs.stopped # None =>
              /\ mt.best_epoch # obs.stopped
              /\ local.metrics.best_epoch # obs.stopped
              /\ ~is_best_so_far(mt)
        /\ obs.saved # <<>> =>
              /\ local.metrics.best_epoch = EarliestBest(mt.history, mt.is_higher_better)
              /\ store.best = past.weights[local.metrics.best_epoch + 1]
              /\ past.values[local.metrics.best_epoch + 1] = mt.best_value

\* stopped at epoch 2 after two epochs without improvement on epoch 0
C18_Witness ==
    /\ ColdStartWithValidation
    /\ conf.patience = 2
    /\ obs.stopped = 2
    /\ obs.saved = <<0, 1>>
    /\ local.metrics.best_epoch = 0
    /\ store.best = past.weights[1]
    /\ store.best # LastSnapshot.model_state

\* the process ran from a cold start or resumed from a snapshot
ColdOrResumed ==
    /\ pc # "init"
    /\ ~RecoveryFailed
    /\ restarts > 0 => obs.restored # None

\* C19 (as stated): batch_num_total always equals the number of training
\* batches started over the whole training history, is stored in every
\* checkpoint, and after a resume continues from the stored value.
C19_CountsWholeHistory ==
    /\ \A i \in DOMAIN store.snapshots :
          "batch_num_total" \in DOMAIN store.snapshots[i].training_state
    /\ ColdOrResumed => self.batch_num_total = past.started

\* C19 (amended): batch_num_total equals the value stored in the snapshot the
\* process resumed from (0 on a cold start) plus one for every training
\* batch the process started since; val_epoch and the test pass leave it
\* alone.  The value stored with epoch E counts the training batches of the
\* epochs 0..E, so the batches a process started after its last save are
\* not counted after a resume.
C19_CountsSinceSnapshot ==
    LET stored(epoch) == (epoch + 1) * NumTrainBatches
        resumed_from == IF obs.restored = None THEN 0 ELSE stored(obs.restored)
    IN /\ \A i \in DOMAIN store.snapshots :
            LET ts == store.snapshots[i].training_state IN
            /\ "batch_num_total" \in DOMAIN ts
            /\ ts.batch_num_total = stored(ts.epoch)
       /\ pc # "init" => self.batch_num_total = resumed_from + obs.zero_grad
       /\ self.batch_num_total <= past.started

\* a resume after an interruption in the middle of epoch 1: one batch of the
\* first process is not counted
C19_Witness ==
    /\ restarts = 1
    /\ obs.restored = 0
    /\ pc = "train"
    /\ self.batch_num_total = NumTrainBatches + 1
    /\ past.started = NumTrainBatches + 2

\* C20: with a learning-rate scheduler configured, every epoch that completes
\* steps the scheduler exactly once, after the epoch's validation metric was
\* added to the tracker and before the epoch's save_checkpoint, so that the
\* scheduler state stored with epoch E includes the step of epoch E; the
\* scheduler is not stepped inside train_epoch or val_epoch, nor at the epoch
\* at which early stopping fires.
C20_SchedulerStep ==
    conf.learning_rate_scheduler =>
        /\ obs.sched_step = Len(obs.saved)
        /\ obs.stopped # None =>
              /\ obs.stopped \notin Range(obs.saved)
              /\ obs.sched_step = Len(obs.trained) - 1
        /\ pc \in {"train", "val", "tail"} =>
              obs.sched_step = Len(obs.trained) - 1
        /\ pc # "init" =>
              self.scheduler = obs.sched_step +
                  (IF obs.restored = None THEN 0 ELSE obs.restored + 1)
        /\ \A i \in DOMAIN store.snapshots :
              LET ts == store.snapshots[i].training_state
                  h == ts.metric_traceker.history
              IN /\ ts.learning_rate_scheduler = ts.epoch + 1
                 /\ h # <<>>
                 /\ h[Len(h)] = past.values[ts.epoch + 1]

\* two epochs completed and stepped, early stop at the third
C20_Witness ==
    /\ conf.learning_rate_scheduler
    /\ obs.stopped = 2
    /\ obs.sched_step = 2
    /\ self.scheduler = 2
    /\ LastSnapshot.training_state.learning_rate_scheduler = 2

====
